---- MODULE Spec2Model ----
(***************************************************************************)
(* Model of src/NetworkHelpers.py: the epoch loop train_loop with its two  *)
(* callees train_model and evaluate_model, and the test pass test_model.   *)
(*                                                                         *)
(* Losses are exact rationals.  A batch loss is a small natural number; a  *)
(* mean loss is the pair [num, den] standing for num / den, and +infinity  *)
(* (np.Inf) is the pair [num |-> 1, den |-> 0].  Floating point rounding   *)
(* is not modelled.                                                        *)
(***************************************************************************)
EXTENDS Integers, Sequences, FiniteSets, TLC

\* ----------------------------------------------------------------- bounds
MaxEpochs == 3
MaxPatience == 2
MaxBatches == 2
MaxBatchSize == 2
MaxLoss == 2
MaxClasses == 2
MaxTestBatches == 2

\* ------------------------------------------------------ program constants
\* line 92: the running window of the progress print
LogEvery == 20
\* line 131: the minimum width of the epoch tag in f'{epoch:03d}model_cifar.pt'
TagWidth == 3

VARIABLES
  \* netparams, as train_loop reads it
  n_epochs, max_no_improve_epochs, train_loader, validation_loader,
  \* locals of train_loop
  pc, epoch, no_improvement, valid_loss_min, train_loss_array, valid_loss_array,
  train_loss,
  \* locals of train_model
  batch_i, train_loss_tmp, loss, tm_losses,
  \* locals of evaluate_model
  ev_batch_i, valid_loss, ev_train_loss, ev_valid_loss_min, ev_no_improvement,
  ev_losses,
  \* the model, the optimizer and the checkpoint sink
  mode, grads, opt_steps, checkpoints,
  \* calls made so far
  train_calls, eval_calls,
  \* the exception in flight, and the operations done on the current batch
  error, ops,
  \* netparams and working_ds, as test_model reads them
  batch_size, class_num, test_loader,
  \* locals of test_model
  tpc, test_i, sample_i, test_loss, class_correct, class_total, retained,
  reports, overall

loopVars == <<n_epochs, max_no_improve_epochs, train_loader, validation_loader,
              pc, epoch, no_improvement, valid_loss_min, train_loss_array,
              valid_loss_array, train_loss, batch_i, train_loss_tmp, loss,
              tm_losses, ev_batch_i, valid_loss, ev_train_loss,
              ev_valid_loss_min, ev_no_improvement, ev_losses, mode, grads,
              opt_steps, checkpoints, train_calls, eval_calls, error, ops>>

testVars == <<batch_size, class_num, test_loader, tpc, test_i, sample_i,
              test_loss, class_correct, class_total, retained, reports, overall>>

vars == <<loopVars, testVars>>

\* ---------------------------------------------------------------- values
Losses == 1..MaxLoss

\* a Python float / None, as train_model returns it
Num(n) == [kind |-> "float", val |-> n]
None == [kind |-> "None", val |-> 0]

\* sum / count, as a fraction
Mean(sum, count) == [num |-> sum, den |-> count]
Inf == [num |-> 1, den |-> 0]
\* a <= b on fractions with den >= 0 (den = 0 is +infinity)
Leq(a, b) == a.num * b.den <= b.num * a.den

\* all sequences over S of length lo..hi
SeqsOf(S, lo, hi) == UNION {[1..n -> S] : n \in lo..hi}

RECURSIVE SumSizes(_)
SumSizes(sizes) ==
  IF sizes = <<>> THEN 0 ELSE Head(sizes) + SumSizes(Tail(sizes))

\* len(loader.sampler) and len(loader.dataset): the samples behind the batches
SampleCount(loader) == SumSizes(loader)

RECURSIVE Digits(_)
Digits(n) == IF n < 10 THEN <<n>> ELSE Append(Digits(n \div 10), n % 10)

RECURSIVE ZeroPad(_, _)
ZeroPad(s, w) == IF Len(s) >= w THEN s ELSE ZeroPad(<<0>> \o s, w)

\* f'{epoch:03d}model_cifar.pt'
FileName(e) == [tag |-> ZeroPad(Digits(e), TagWidth), suffix |-> "model_cifar.pt"]

\* --------------------------------------------------------- initial states
\* test_model is not running while train_loop is modelled
TestIdle ==
  /\ batch_size = 1 /\ class_num = 1 /\ test_loader = <<>>
  /\ tpc = "idle" /\ test_i = 1 /\ sample_i = 0 /\ test_loss = Mean(0, 1)
  /\ class_correct = <<>> /\ class_total = <<>>
  /\ retained = <<>> /\ reports = <<>> /\ overall = "none"

\* train_loop is not running while test_model is modelled
LoopIdle ==
  /\ n_epochs = 1 /\ max_no_improve_epochs = 0
  /\ train_loader = <<>> /\ validation_loader = <<>>
  /\ pc = "idle" /\ epoch = 1 /\ no_improvement = 0 /\ valid_loss_min = Inf
  /\ train_loss_array = <<>> /\ valid_loss_array = <<>> /\ train_loss = Num(0)
  /\ batch_i = 0 /\ train_loss_tmp = 0 /\ loss = 0 /\ tm_losses = <<>>
  /\ ev_batch_i = 0 /\ valid_loss = 0 /\ ev_train_loss = Mean(0, 1)
  /\ ev_valid_loss_min = Inf /\ ev_no_improvement = 0 /\ ev_losses = <<>>
  /\ grads = 0 /\ opt_steps = 0 /\ checkpoints = <<>>
  /\ train_calls = 0 /\ eval_calls = 0 /\ error = "none" /\ ops = <<>>

\* train_loop(netparams, no_improvement) entered: lines 10-17
Init ==
  /\ n_epochs \in 1..MaxEpochs
  /\ max_no_improve_epochs \in 0..MaxPatience
  /\ no_improvement \in 0..MaxPatience
  /\ train_loader \in SeqsOf(1..MaxBatchSize, 0, MaxBatches)
  /\ validation_loader \in SeqsOf(1..MaxBatchSize, 0, MaxBatches)
  /\ pc = "loop" /\ epoch = 1 /\ valid_loss_min = Inf
  /\ train_loss_array = <<>> /\ valid_loss_array = <<>> /\ train_loss = Num(0)
  /\ batch_i = 0 /\ train_loss_tmp = 0 /\ loss = 0 /\ tm_losses = <<>>
  /\ ev_batch_i = 0 /\ valid_loss = 0 /\ ev_train_loss = Mean(0, 1)
  /\ ev_valid_loss_min = Inf /\ ev_no_improvement = 0 /\ ev_losses = <<>>
  /\ mode = "train" /\ grads = 0 /\ opt_steps = 0 /\ checkpoints = <<>>
  /\ train_calls = 0 /\ eval_calls = 0 /\ error = "none" /\ ops = <<>>
  /\ TestIdle

\* ------------------------------------------------------------- train_loop
\* line 19: range(1, n_epochs + 1) is exhausted; lines 61-65
LoopExhausted ==
  /\ pc = "loop" /\ epoch > n_epochs
  /\ pc' = "done"
  /\ UNCHANGED <<n_epochs, max_no_improve_epochs, train_loader, validation_loader,
                 epoch, no_improvement, valid_loss_min, train_loss_array,
                 valid_loss_array, train_loss, batch_i, train_loss_tmp, loss,
                 tm_losses, ev_batch_i, valid_loss, ev_train_loss,
                 ev_valid_loss_min, ev_no_improvement, ev_losses, mode, grads,
                 opt_steps, checkpoints, train_calls, eval_calls>>
  /\ UNCHANGED <<error, ops>>
  /\ UNCHANGED testVars

\* lines 22-23: the early-stopping break; lines 61-65
EarlyStop ==
  /\ pc = "loop" /\ epoch <= n_epochs
  /\ no_improvement >= max_no_improve_epochs
  /\ pc' = "done"
  /\ UNCHANGED <<n_epochs, max_no_improve_epochs, train_loader, validation_loader,
                 epoch, no_improvement, valid_loss_min, train_loss_array,
                 valid_loss_array, train_loss, batch_i, train_loss_tmp, loss,
                 tm_losses, ev_batch_i, valid_loss, ev_train_loss,
                 ev_valid_loss_min, ev_no_improvement, ev_losses, mode, grads,
                 opt_steps, checkpoints, train_calls, eval_calls>>
  /\ UNCHANGED <<error, ops>>
  /\ UNCHANGED testVars

\* lines 26-38 behind a line 22 that tests > for >=
StartEpochOffByOne ==
  /\ pc = "loop" /\ epoch <= n_epochs
  /\ ~(no_improvement > max_no_improve_epochs)
  /\ train_loss' = Num(0)
  /\ train_loss_tmp' = 0
  /\ valid_loss' = 0
  /\ mode' = "train"
  /\ batch_i' = 0
  /\ tm_losses' = <<>>
  /\ train_calls' = train_calls + 1
  /\ pc' = "tm_for"
  /\ UNCHANGED <<n_epochs, max_no_improve_epochs, train_loader, validation_loader,
                 epoch, no_improvement, valid_loss_min, train_loss_array,
                 valid_loss_array, loss, ev_batch_i, ev_train_loss,
                 ev_valid_loss_min, ev_no_improvement, ev_losses, grads,
                 opt_steps, checkpoints, eval_calls>>
  /\ UNCHANGED <<error, ops>>
  /\ UNCHANGED testVars

\* lines 26-38: the epoch starts and calls train_model; lines 72-73
StartEpoch ==
  /\ pc = "loop" /\ epoch <= n_epochs
  /\ ~(no_improvement >= max_no_improve_epochs)
  /\ train_loss' = Num(0)
  /\ train_loss_tmp' = 0
  /\ valid_loss' = 0
  /\ mode' = "train"
  /\ batch_i' = 0
  /\ tm_losses' = <<>>
  /\ train_calls' = train_calls + 1
  /\ pc' = "tm_for"
  /\ UNCHANGED <<n_epochs, max_no_improve_epochs, train_loader, validation_loader,
                 epoch, no_improvement, valid_loss_min, train_loss_array,
                 valid_loss_array, loss, ev_batch_i, ev_train_loss,
                 ev_valid_loss_min, ev_no_improvement, ev_losses, grads,
                 opt_steps, checkpoints, eval_calls>>
  /\ UNCHANGED <<error, ops>>
  /\ UNCHANGED testVars

\* ------------------------------------------------------------ train_model
\* line 47 with line 107, without the model.eval() of line 108
CallEvaluateNoEval ==
  /\ ev_valid_loss_min' = valid_loss_min
  /\ ev_no_improvement' = no_improvement
  /\ ev_batch_i' = 0
  /\ ev_losses' = <<>>
  /\ mode' = mode
  /\ eval_calls' = eval_calls + 1
  /\ pc' = "ev_for"

\* line 47 with lines 107-108: train_loop calls evaluate_model, which binds
\* its parameters to copies of train_loop's values and switches the model
CallEvaluate ==
  /\ ev_valid_loss_min' = valid_loss_min
  /\ ev_no_improvement' = no_improvement
  /\ ev_batch_i' = 0
  /\ ev_losses' = <<>>
  /\ mode' = "eval"
  /\ eval_calls' = eval_calls + 1
  /\ pc' = "ev_for"

\* line 74: the loader yields its next batch
TmNextBatch ==
  /\ pc = "tm_for" /\ batch_i < Len(train_loader)
  /\ pc' = "tm_zero_grad"
  /\ UNCHANGED <<n_epochs, max_no_improve_epochs, train_loader, validation_loader,
                 epoch, no_improvement, valid_loss_min, train_loss_array,
                 valid_loss_array, train_loss, batch_i, train_loss_tmp, loss,
                 tm_losses, ev_batch_i, valid_loss, ev_train_loss,
                 ev_valid_loss_min, ev_no_improvement, ev_losses, mode, grads,
                 opt_steps, checkpoints, train_calls, eval_calls>>
  /\ ops' = <<>>
  /\ UNCHANGED error
  /\ UNCHANGED testVars

\* line 74: the loader is exhausted; the function ends without a return
\* statement, so the call at line 35 yields None
TmFallOff ==
  /\ pc = "tm_for" /\ batch_i >= Len(train_loader)
  /\ train_loss' = None
  /\ CallEvaluate
  /\ UNCHANGED <<n_epochs, max_no_improve_epochs, train_loader, validation_loader,
                 epoch, no_improvement, valid_loss_min, train_loss_array,
                 valid_loss_array, batch_i, train_loss_tmp, loss, tm_losses,
                 valid_loss, ev_train_loss, grads, opt_steps, checkpoints,
                 train_calls>>
  /\ UNCHANGED <<error, ops>>
  /\ UNCHANGED testVars

\* line 79 left out: the stored gradients are kept
TmZeroGradSkipped ==
  /\ pc = "tm_zero_grad"
  /\ pc' = "tm_forward"
  /\ UNCHANGED <<n_epochs, max_no_improve_epochs, train_loader, validation_loader,
                 epoch, no_improvement, valid_loss_min, train_loss_array,
                 valid_loss_array, train_loss, batch_i, train_loss_tmp, loss,
                 tm_losses, ev_batch_i, valid_loss, ev_train_loss,
                 ev_valid_loss_min, ev_no_improvement, ev_losses, mode, grads,
                 opt_steps, checkpoints, train_calls, eval_calls, error, ops>>
  /\ UNCHANGED testVars

\* line 79: optimizer.zero_grad()
TmZeroGrad ==
  /\ pc = "tm_zero_grad"
  /\ grads' = 0
  /\ pc' = "tm_forward"
  /\ UNCHANGED <<n_epochs, max_no_improve_epochs, train_loader, validation_loader,
                 epoch, no_improvement, valid_loss_min, train_loss_array,
                 valid_loss_array, train_loss, batch_i, train_loss_tmp, loss,
                 tm_losses, ev_batch_i, valid_loss, ev_train_loss,
                 ev_valid_loss_min, ev_no_improvement, ev_losses, mode,
                 opt_steps, checkpoints, train_calls, eval_calls>>
  /\ ops' = Append(ops, "zero_grad")
  /\ UNCHANGED error
  /\ UNCHANGED testVars

\* lines 81-83: forward pass and batch loss
TmForward ==
  /\ pc = "tm_forward"
  /\ \E l \in Losses : loss' = l
  /\ pc' = "tm_backward"
  /\ UNCHANGED <<n_epochs, max_no_improve_epochs, train_loader, validation_loader,
                 epoch, no_improvement, valid_loss_min, train_loss_array,
                 valid_loss_array, train_loss, batch_i, train_loss_tmp,
                 tm_losses, ev_batch_i, valid_loss, ev_train_loss,
                 ev_valid_loss_min, ev_no_improvement, ev_losses, mode, grads,
                 opt_steps, checkpoints, train_calls, eval_calls>>
  /\ ops' = ops \o <<"forward", "loss">>
  /\ UNCHANGED error
  /\ UNCHANGED testVars

\* lines 81-83 raise (a malformed batch, device or memory error); train_model
\* and train_loop have no handler, so the exception leaves train_loop
TmBatchRaise ==
  /\ pc = "tm_forward"
  /\ error' = "batch"
  /\ pc' = "raised"
  /\ UNCHANGED <<n_epochs, max_no_improve_epochs, train_loader, validation_loader,
                 epoch, no_improvement, valid_loss_min, train_loss_array,
                 valid_loss_array, train_loss, batch_i, train_loss_tmp, loss,
                 tm_losses, ev_batch_i, valid_loss, ev_train_loss,
                 ev_valid_loss_min, ev_no_improvement, ev_losses, mode, grads,
                 opt_steps, checkpoints, train_calls, eval_calls, ops>>
  /\ UNCHANGED testVars

\* line 85: loss.backward() adds this batch's gradients to the stored ones
TmBackward ==
  /\ pc = "tm_backward"
  /\ grads' = grads + 1
  /\ pc' = "tm_step"
  /\ UNCHANGED <<n_epochs, max_no_improve_epochs, train_loader, validation_loader,
                 epoch, no_improvement, valid_loss_min, train_loss_array,
                 valid_loss_array, train_loss, batch_i, train_loss_tmp, loss,
                 tm_losses, ev_batch_i, valid_loss, ev_train_loss,
                 ev_valid_loss_min, ev_no_improvement, ev_losses, mode,
                 opt_steps, checkpoints, train_calls, eval_calls>>
  /\ ops' = Append(ops, "backward")
  /\ UNCHANGED error
  /\ UNCHANGED testVars

\* line 87: optimizer.step() changes the parameters
TmStep ==
  /\ pc = "tm_step"
  /\ opt_steps' = opt_steps + 1
  /\ pc' = "tm_accum"
  /\ UNCHANGED <<n_epochs, max_no_improve_epochs, train_loader, validation_loader,
                 epoch, no_improvement, valid_loss_min, train_loss_array,
                 valid_loss_array, train_loss, batch_i, train_loss_tmp, loss,
                 tm_losses, ev_batch_i, valid_loss, ev_train_loss,
                 ev_valid_loss_min, ev_no_improvement, ev_losses, mode, grads,
                 checkpoints, train_calls, eval_calls>>
  /\ ops' = Append(ops, "step")
  /\ UNCHANGED error
  /\ UNCHANGED testVars

\* lines 89-95: the running sums and the progress window
TmAccumulate ==
  /\ pc = "tm_accum"
  /\ train_loss' = Num(train_loss.val + loss * train_loader[batch_i + 1])
  /\ train_loss_tmp' = IF batch_i % LogEvery = LogEvery - 1
                          THEN 0 ELSE train_loss_tmp + loss
  /\ tm_losses' = Append(tm_losses, loss)
  /\ pc' = "tm_return"
  /\ UNCHANGED <<n_epochs, max_no_improve_epochs, train_loader, validation_loader,
                 epoch, no_improvement, valid_loss_min, train_loss_array,
                 valid_loss_array, batch_i, loss, ev_batch_i, valid_loss,
                 ev_train_loss, ev_valid_loss_min, ev_no_improvement, ev_losses,
                 mode, grads, opt_steps, checkpoints, train_calls, eval_calls>>
  /\ ops' = Append(ops, "accumulate")
  /\ UNCHANGED error
  /\ UNCHANGED testVars

\* line 96: return train_loss, inside the body of the for loop
TmReturn ==
  /\ pc = "tm_return"
  /\ CallEvaluate
  /\ UNCHANGED <<n_epochs, max_no_improve_epochs, train_loader, validation_loader,
                 epoch, no_improvement, valid_loss_min, train_loss_array,
                 valid_loss_array, train_loss, batch_i, train_loss_tmp, loss,
                 tm_losses, valid_loss, ev_train_loss, grads, opt_steps,
                 checkpoints, train_calls>>
  /\ UNCHANGED <<error, ops>>
  /\ UNCHANGED testVars

\* --------------------------------------------------------- evaluate_model
\* line 109: the validation loader yields its next batch
EvNextBatch ==
  /\ pc = "ev_for" /\ ev_batch_i < Len(validation_loader)
  /\ pc' = "ev_forward"
  /\ UNCHANGED <<n_epochs, max_no_improve_epochs, train_loader, validation_loader,
                 epoch, no_improvement, valid_loss_min, train_loss_array,
                 valid_loss_array, train_loss, batch_i, train_loss_tmp, loss,
                 tm_losses, ev_batch_i, valid_loss, ev_train_loss,
                 ev_valid_loss_min, ev_no_improvement, ev_losses, mode, grads,
                 opt_steps, checkpoints, train_calls, eval_calls>>
  /\ UNCHANGED <<error, ops>>
  /\ UNCHANGED testVars

\* lines 115-117: forward pass, batch loss, running sum; back to line 109
EvForward ==
  /\ pc = "ev_forward"
  /\ \E l \in Losses :
       /\ loss' = l
       /\ valid_loss' = valid_loss + l * validation_loader[ev_batch_i + 1]
       /\ ev_losses' = Append(ev_losses, l)
  /\ ev_batch_i' = ev_batch_i + 1
  /\ pc' = "ev_for"
  /\ UNCHANGED <<n_epochs, max_no_improve_epochs, train_loader, validation_loader,
                 epoch, no_improvement, valid_loss_min, train_loss_array,
                 valid_loss_array, train_loss, batch_i, train_loss_tmp,
                 tm_losses, ev_train_loss, ev_valid_loss_min, ev_no_improvement,
                 mode, grads, opt_steps, checkpoints, train_calls, eval_calls>>
  /\ UNCHANGED <<error, ops>>
  /\ UNCHANGED testVars

\* lines 115-116 raise and the batch is skipped by a handler that goes on
\* with the next batch
EvBatchRaiseSwallowed ==
  /\ pc = "ev_forward"
  /\ error' = "batch"
  /\ ev_batch_i' = ev_batch_i + 1
  /\ pc' = "ev_for"
  /\ UNCHANGED <<n_epochs, max_no_improve_epochs, train_loader, validation_loader,
                 epoch, no_improvement, valid_loss_min, train_loss_array,
                 valid_loss_array, train_loss, batch_i, train_loss_tmp, loss,
                 tm_losses, valid_loss, ev_train_loss,
                 ev_valid_loss_min, ev_no_improvement, ev_losses, mode, grads,
                 opt_steps, checkpoints, train_calls, eval_calls, ops>>
  /\ UNCHANGED testVars

\* lines 115-116 raise; evaluate_model and train_loop have no handler, so the
\* exception leaves train_loop
EvBatchRaise ==
  /\ pc = "ev_forward"
  /\ error' = "batch"
  /\ pc' = "raised"
  /\ UNCHANGED <<n_epochs, max_no_improve_epochs, train_loader, validation_loader,
                 epoch, no_improvement, valid_loss_min, train_loss_array,
                 valid_loss_array, train_loss, batch_i, train_loss_tmp, loss,
                 tm_losses, ev_batch_i, valid_loss, ev_train_loss,
                 ev_valid_loss_min, ev_no_improvement, ev_losses, mode, grads,
                 opt_steps, checkpoints, train_calls, eval_calls, ops>>
  /\ UNCHANGED testVars

\* lines 119-120 raise: None / int is a TypeError, x / 0 a ZeroDivisionError
NormalizeRaises ==
  \/ train_loss.kind = "None"
  \/ SampleCount(train_loader) = 0
  \/ SampleCount(validation_loader) = 0

\* line 109 exhausted, then lines 119-120 raise; nothing catches it
EvNormalizeRaise ==
  /\ pc = "ev_for" /\ ev_batch_i >= Len(validation_loader)
  /\ NormalizeRaises
  /\ pc' = "raised"
  /\ UNCHANGED <<n_epochs, max_no_improve_epochs, train_loader, validation_loader,
                 epoch, no_improvement, valid_loss_min, train_loss_array,
                 valid_loss_array, train_loss, batch_i, train_loss_tmp, loss,
                 tm_losses, ev_batch_i, valid_loss, ev_train_loss,
                 ev_valid_loss_min, ev_no_improvement, ev_losses, mode, grads,
                 opt_steps, checkpoints, train_calls, eval_calls>>
  /\ error' = (IF train_loss.kind = "None" THEN "TypeError"
                                               ELSE "ZeroDivisionError")
  /\ UNCHANGED ops
  /\ UNCHANGED testVars

\* lines 119-126 without line 126: only the train loss is recorded
EvNormalizeOneList ==
  /\ pc = "ev_for" /\ ev_batch_i >= Len(validation_loader)
  /\ ~NormalizeRaises
  /\ ev_train_loss' = Mean(train_loss.val, SampleCount(train_loader))
  /\ train_loss_array' =
       Append(train_loss_array, Mean(train_loss.val, SampleCount(train_loader)))
  /\ pc' = "ev_decide"
  /\ UNCHANGED <<n_epochs, max_no_improve_epochs, train_loader, validation_loader,
                 epoch, no_improvement, valid_loss_min, train_loss, batch_i,
                 train_loss_tmp, loss, tm_losses, ev_batch_i, valid_loss,
                 valid_loss_array,
                 ev_valid_loss_min, ev_no_improvement, ev_losses, mode, grads,
                 opt_steps, checkpoints, train_calls, eval_calls>>
  /\ UNCHANGED <<error, ops>>
  /\ UNCHANGED testVars

\* lines 119-126 dividing by the number of batches, len(loader)
EvNormalizeByBatches ==
  /\ pc = "ev_for" /\ ev_batch_i >= Len(validation_loader)
  /\ ~NormalizeRaises
  /\ ev_train_loss' = Mean(train_loss.val, Len(train_loader))
  /\ train_loss_array' =
       Append(train_loss_array, Mean(train_loss.val, Len(train_loader)))
  /\ valid_loss_array' =
       Append(valid_loss_array, Mean(valid_loss, Len(validation_loader)))
  /\ pc' = "ev_decide"
  /\ UNCHANGED <<n_epochs, max_no_improve_epochs, train_loader, validation_loader,
                 epoch, no_improvement, valid_loss_min, train_loss, batch_i,
                 train_loss_tmp, loss, tm_losses, ev_batch_i, valid_loss,
                 ev_valid_loss_min, ev_no_improvement, ev_losses, mode, grads,
                 opt_steps, checkpoints, train_calls, eval_calls>>
  /\ UNCHANGED <<error, ops>>
  /\ UNCHANGED testVars

\* line 109 exhausted, then lines 119-126: the two means, appended to the
\* lists train_loop passed in
EvNormalize ==
  /\ pc = "ev_for" /\ ev_batch_i >= Len(validation_loader)
  /\ ~NormalizeRaises
  /\ ev_train_loss' = Mean(train_loss.val, SampleCount(train_loader))
  /\ train_loss_array' =
       Append(train_loss_array, Mean(train_loss.val, SampleCount(train_loader)))
  /\ valid_loss_array' =
       Append(valid_loss_array, Mean(valid_loss, SampleCount(validation_loader)))
  /\ pc' = "ev_decide"
  /\ UNCHANGED <<n_epochs, max_no_improve_epochs, train_loader, validation_loader,
                 epoch, no_improvement, valid_loss_min, train_loss, batch_i,
                 train_loss_tmp, loss, tm_losses, ev_batch_i, valid_loss,
                 ev_valid_loss_min, ev_no_improvement, ev_losses, mode, grads,
                 opt_steps, checkpoints, train_calls, eval_calls>>
  /\ UNCHANGED <<error, ops>>
  /\ UNCHANGED testVars

\* the mean validation loss of line 120, as lines 124-132 read it
EvValidLoss == Mean(valid_loss, SampleCount(validation_loader))

\* line 128 with < for <=: a tie would not count as an improvement
ImprovedStrict == ~Leq(ev_valid_loss_min, EvValidLoss)

\* line 128
Improved == Leq(EvValidLoss, ev_valid_loss_min)

\* lines 128-133 without line 132: the best-so-far is not updated
EvSaveKeepsBest ==
  /\ pc = "ev_decide"
  /\ Leq(Mean(valid_loss, SampleCount(validation_loader)), ev_valid_loss_min)
  /\ checkpoints' = Append(checkpoints,
       [name |-> FileName(epoch), epoch |-> epoch, params |-> opt_steps])
  /\ ev_no_improvement' = 0
  /\ pc' = "ev_return"
  /\ UNCHANGED <<n_epochs, max_no_improve_epochs, train_loader, validation_loader,
                 epoch, no_improvement, valid_loss_min, train_loss_array,
                 valid_loss_array, train_loss, batch_i, train_loss_tmp, loss,
                 tm_losses, ev_batch_i, valid_loss, ev_train_loss, ev_losses,
                 ev_valid_loss_min, mode, grads, opt_steps, train_calls,
                 eval_calls>>
  /\ UNCHANGED <<error, ops>>
  /\ UNCHANGED testVars

\* lines 128-133: the checkpoint is written and the locals are updated
EvSave ==
  /\ pc = "ev_decide"
  /\ Improved
  /\ checkpoints' = Append(checkpoints,
       [name |-> FileName(epoch), epoch |-> epoch, params |-> opt_steps])
  /\ ev_valid_loss_min' = EvValidLoss
  /\ ev_no_improvement' = 0
  /\ pc' = "ev_return"
  /\ UNCHANGED <<n_epochs, max_no_improve_epochs, train_loader, validation_loader,
                 epoch, no_improvement, valid_loss_min, train_loss_array,
                 valid_loss_array, train_loss, batch_i, train_loss_tmp, loss,
                 tm_losses, ev_batch_i, valid_loss, ev_train_loss, ev_losses,
                 mode, grads, opt_steps, train_calls, eval_calls>>
  /\ UNCHANGED <<error, ops>>
  /\ UNCHANGED testVars

\* lines 134-136 with line 132 moved out of the if: the best is overwritten
EvNoImproveOverwrites ==
  /\ pc = "ev_decide"
  /\ ~Leq(EvValidLoss, ev_valid_loss_min)
  /\ ev_no_improvement' = ev_no_improvement + 1
  /\ ev_valid_loss_min' = EvValidLoss
  /\ pc' = "ev_return"
  /\ UNCHANGED <<n_epochs, max_no_improve_epochs, train_loader, validation_loader,
                 epoch, no_improvement, valid_loss_min, train_loss_array,
                 valid_loss_array, train_loss, batch_i, train_loss_tmp, loss,
                 tm_losses, ev_batch_i, valid_loss, ev_train_loss,
                 ev_losses, mode, grads, opt_steps,
                 checkpoints, train_calls, eval_calls>>
  /\ UNCHANGED <<error, ops>>
  /\ UNCHANGED testVars

\* lines 134-136: the local counter is incremented
EvNoImprove ==
  /\ pc = "ev_decide"
  /\ ~Improved
  /\ ev_no_improvement' = ev_no_improvement + 1
  /\ pc' = "ev_return"
  /\ UNCHANGED <<n_epochs, max_no_improve_epochs, train_loader, validation_loader,
                 epoch, no_improvement, valid_loss_min, train_loss_array,
                 valid_loss_array, train_loss, batch_i, train_loss_tmp, loss,
                 tm_losses, ev_batch_i, valid_loss, ev_train_loss,
                 ev_valid_loss_min, ev_losses, mode, grads, opt_steps,
                 checkpoints, train_calls, eval_calls>>
  /\ UNCHANGED <<error, ops>>
  /\ UNCHANGED testVars

\* line 19 stepping the epoch index by two
EvReturnSkips ==
  /\ pc = "ev_return"
  /\ valid_loss_min' = ev_valid_loss_min
  /\ epoch' = epoch + 2
  /\ pc' = "loop"
  /\ UNCHANGED <<n_epochs, max_no_improve_epochs, train_loader, validation_loader,
                 no_improvement, train_loss_array, valid_loss_array, train_loss,
                 batch_i, train_loss_tmp, loss, tm_losses, ev_batch_i,
                 valid_loss, ev_train_loss, ev_valid_loss_min,
                 ev_no_improvement, ev_losses, mode, grads, opt_steps,
                 checkpoints, train_calls, eval_calls>>
  /\ UNCHANGED <<error, ops>>
  /\ UNCHANGED testVars

\* line 137 returns valid_loss_min only; line 47 stores it; lines 56-59 and
\* line 19 move to the next epoch.  train_loop's no_improvement is not
\* assigned: evaluate_model changed its own parameter.
EvReturn ==
  /\ pc = "ev_return"
  /\ valid_loss_min' = ev_valid_loss_min
  /\ epoch' = epoch + 1
  /\ pc' = "loop"
  /\ UNCHANGED <<n_epochs, max_no_improve_epochs, train_loader, validation_loader,
                 no_improvement, train_loss_array, valid_loss_array, train_loss,
                 batch_i, train_loss_tmp, loss, tm_losses, ev_batch_i,
                 valid_loss, ev_train_loss, ev_valid_loss_min,
                 ev_no_improvement, ev_losses, mode, grads, opt_steps,
                 checkpoints, train_calls, eval_calls>>
  /\ UNCHANGED <<error, ops>>
  /\ UNCHANGED testVars

Next ==
  \/ LoopExhausted \/ EarlyStop \/ StartEpoch
  \/ TmNextBatch \/ TmFallOff \/ TmZeroGrad \/ TmForward \/ TmBatchRaise
  \/ TmBackward \/ TmStep \/ TmAccumulate \/ TmReturn
  \/ EvNextBatch \/ EvForward \/ EvBatchRaise \/ EvNormalizeRaise \/ EvNormalize
  \/ EvSave \/ EvNoImprove \/ EvReturn

Spec == Init /\ [][Next]_vars

\* ------------------------------------------------------------- test_model
Classes == 0..(class_num - 1)

\* test_model(netparams, working_ds) entered: lines 147-155, with the
\* model.eval() of line 153 done
InitTest ==
  /\ batch_size \in 1..MaxBatchSize
  /\ class_num \in 1..MaxClasses
  /\ test_loader \in SeqsOf(1..MaxBatchSize, 0, MaxTestBatches)
  /\ tpc = "test_for" /\ test_i = 1 /\ sample_i = 0 /\ test_loss = Mean(0, 1)
  /\ class_correct = [c \in 0..(class_num - 1) |-> 0]
  /\ class_total = [c \in 0..(class_num - 1) |-> 0]
  /\ retained = <<>> /\ reports = <<>> /\ overall = "none"
  /\ mode = "eval"
  /\ LoopIdle

\* line 158: the test loader is exhausted
TestExhausted ==
  /\ tpc = "test_for" /\ test_i > Len(test_loader)
  /\ tpc' = "test_mean"
  /\ UNCHANGED <<batch_size, class_num, test_loader, test_i, sample_i,
                 test_loss, class_correct, class_total, retained, reports,
                 overall>>
  /\ UNCHANGED loopVars

\* lines 160-161: a batch shorter than batch_size ends the loop
TestBreak ==
  /\ tpc = "test_for" /\ test_i <= Len(test_loader)
  /\ test_loader[test_i] < batch_size
  /\ tpc' = "test_mean"
  /\ UNCHANGED <<batch_size, class_num, test_loader, test_i, sample_i,
                 test_loss, class_correct, class_total, retained, reports,
                 overall>>
  /\ UNCHANGED loopVars

\* lines 162-176: one batch is run through the model; its loss is added
TestForward ==
  /\ tpc = "test_for" /\ test_i <= Len(test_loader)
  /\ ~(test_loader[test_i] < batch_size)
  /\ \E l \in Losses :
       /\ test_loss' = Mean(test_loss.num + l * test_loader[test_i], 1)
       /\ retained' = Append(retained,
            [idx |-> test_i, size |-> test_loader[test_i], loss |-> l])
  /\ sample_i' = 0
  /\ tpc' = "test_count"
  /\ UNCHANGED <<batch_size, class_num, test_loader, test_i, class_correct,
                 class_total, reports, overall>>
  /\ UNCHANGED loopVars

\* lines 178-181 with line 178 ranging over the whole batch, len(target)
TestCountWholeBatch ==
  /\ tpc = "test_count" /\ sample_i < test_loader[test_i]
  /\ \E label \in Classes :
       \E pred \in Classes :
         /\ class_correct' = [class_correct EXCEPT
              ![label] = @ + (IF pred = label THEN 1 ELSE 0)]
         /\ class_total' = [class_total EXCEPT ![label] = @ + 1]
  /\ sample_i' = sample_i + 1
  /\ UNCHANGED <<batch_size, class_num, test_loader, tpc, test_i, test_loss,
                 retained, reports, overall>>
  /\ UNCHANGED loopVars

\* lines 178-181: sample sample_i of the batch is counted for its label
TestCount ==
  /\ tpc = "test_count" /\ sample_i < batch_size
  /\ \E label \in Classes :
       \E pred \in Classes :
         /\ class_correct' = [class_correct EXCEPT
              ![label] = @ + (IF pred = label THEN 1 ELSE 0)]
         /\ class_total' = [class_total EXCEPT ![label] = @ + 1]
  /\ sample_i' = sample_i + 1
  /\ UNCHANGED <<batch_size, class_num, test_loader, tpc, test_i, test_loss,
                 retained, reports, overall>>
  /\ UNCHANGED loopVars

\* line 178: range(batch_size) is exhausted; back to line 158
TestCountDone ==
  /\ tpc = "test_count" /\ sample_i >= batch_size
  /\ test_i' = test_i + 1
  /\ tpc' = "test_for"
  /\ UNCHANGED <<batch_size, class_num, test_loader, sample_i, test_loss,
                 class_correct, class_total, retained, reports, overall>>
  /\ UNCHANGED loopVars

\* line 184 raises ZeroDivisionError on an empty dataset
TestMeanRaise ==
  /\ tpc = "test_mean"
  /\ SampleCount(test_loader) = 0
  /\ tpc' = "raised"
  /\ UNCHANGED <<batch_size, class_num, test_loader, test_i, sample_i,
                 test_loss, class_correct, class_total, retained, reports,
                 overall>>
  /\ UNCHANGED loopVars

RECURSIVE SizesOf(_)
SizesOf(r) == IF r = <<>> THEN 0 ELSE Head(r).size + SizesOf(Tail(r))

\* line 184 dividing by the samples of the accumulated batches only
TestMeanOverRetained ==
  /\ tpc = "test_mean"
  /\ SampleCount(test_loader) # 0
  /\ test_loss' = Mean(test_loss.num, SizesOf(retained))
  /\ tpc' = "report"
  /\ UNCHANGED <<batch_size, class_num, test_loader, test_i, sample_i,
                 class_correct, class_total, retained, reports, overall>>
  /\ UNCHANGED loopVars

\* lines 184-185: the mean test loss
TestMean ==
  /\ tpc = "test_mean"
  /\ SampleCount(test_loader) # 0
  /\ test_loss' = Mean(test_loss.num, SampleCount(test_loader))
  /\ tpc' = "report"
  /\ UNCHANGED <<batch_size, class_num, test_loader, test_i, sample_i,
                 class_correct, class_total, retained, reports, overall>>
  /\ UNCHANGED loopVars

\* lines 187-194 with line 188 testing class_correct instead of class_total
ReportClassByCorrect ==
  /\ tpc = "report" /\ Len(reports) < class_num
  /\ LET i == Len(reports) IN
       reports' = Append(reports,
         IF class_correct[i] > 0
           THEN [class |-> i, text |-> "accuracy",
                 correct |-> class_correct[i], total |-> class_total[i]]
           ELSE [class |-> i, text |-> "N/A", correct |-> 0, total |-> 0])
  /\ UNCHANGED <<batch_size, class_num, test_loader, tpc, test_i, sample_i,
                 test_loss, class_correct, class_total, retained, overall>>
  /\ UNCHANGED loopVars

\* lines 187-194: one line of the per-class report, for class Len(reports)
ReportClass ==
  /\ tpc = "report" /\ Len(reports) < class_num
  /\ LET i == Len(reports) IN
       reports' = Append(reports,
         IF class_total[i] > 0
           THEN [class |-> i, text |-> "accuracy",
                 correct |-> class_correct[i], total |-> class_total[i]]
           ELSE [class |-> i, text |-> "N/A", correct |-> 0, total |-> 0])
  /\ UNCHANGED <<batch_size, class_num, test_loader, tpc, test_i, sample_i,
                 test_loss, class_correct, class_total, retained, overall>>
  /\ UNCHANGED loopVars

RECURSIVE SumCounts(_, _)
\* np.sum over the first n entries of a per-class list
SumCounts(counts, n) ==
  IF n = 0 THEN 0 ELSE counts[n - 1] + SumCounts(counts, n - 1)

\* lines 196-198 with np.sum(class_total) = 0: the quotient is nan and
\* '%2d' % nan raises ValueError
OverallRaise ==
  /\ tpc = "report" /\ Len(reports) >= class_num
  /\ SumCounts(class_total, class_num) = 0
  /\ tpc' = "raised"
  /\ UNCHANGED <<batch_size, class_num, test_loader, test_i, sample_i,
                 test_loss, class_correct, class_total, retained, reports,
                 overall>>
  /\ UNCHANGED loopVars

\* lines 196-198: the overall accuracy
Overall ==
  /\ tpc = "report" /\ Len(reports) >= class_num
  /\ SumCounts(class_total, class_num) # 0
  /\ overall' = Mean(SumCounts(class_correct, class_num),
                     SumCounts(class_total, class_num))
  /\ tpc' = "done"
  /\ UNCHANGED <<batch_size, class_num, test_loader, test_i, sample_i,
                 test_loss, class_correct, class_total, retained, reports>>
  /\ UNCHANGED loopVars

NextTest ==
  \/ TestExhausted \/ TestBreak \/ TestForward \/ TestCount \/ TestCountDone
  \/ TestMeanRaise \/ TestMean
  \/ ReportClass \/ OverallRaise \/ Overall

SpecTest == InitTest /\ [][NextTest]_vars

\* either function is called: train_loop or test_model
InitAny == Init \/ InitTest

NextAny == Next \/ NextTest

SpecAny == InitAny /\ [][NextAny]_vars

\* ------------------------------------------------- notions of the claims
Last(seq) == seq[Len(seq)]
Front(seq) == SubSeq(seq, 1, Len(seq) - 1)

RECURSIVE BestOf(_)
\* the least mean of a recorded history, +infinity for the empty one
BestOf(arr) ==
  IF arr = <<>> THEN Inf
  ELSE IF Leq(Last(arr), BestOf(Front(arr))) THEN Last(arr)
  ELSE BestOf(Front(arr))

RECURSIVE Streak(_)
\* the number of epochs at the end of a history that did not improve on the
\* best of the epochs before them
Streak(arr) ==
  IF arr = <<>> THEN 0
  ELSE IF Leq(Last(arr), BestOf(Front(arr))) THEN 0
  ELSE Streak(Front(arr)) + 1

RECURSIVE WeightedSum(_, _, _)
\* sum over the first n batches of loss x size
WeightedSum(losses, sizes, n) ==
  IF n = 0 THEN 0
  ELSE losses[n] * sizes[n] + WeightedSum(losses, sizes, n - 1)

\* the epoch has started and its losses are not yet appended
EpochUnderWay ==
  pc \in {"tm_for", "tm_zero_grad", "tm_forward", "tm_backward", "tm_step",
          "tm_accum", "tm_return", "ev_for", "ev_forward"}

\* ------------------------------------------------------------------ C1
\* C1: with patience P >= 1, once P consecutive epochs have failed to improve
\* on the best validation loss, no later epoch runs: whenever an epoch is
\* under way, the epochs recorded before it end in fewer than P
\* non-improving ones.
C1_EarlyStopping ==
  (max_no_improve_epochs >= 1 /\ EpochUnderWay)
    => Streak(valid_loss_array) < max_no_improve_epochs

\* ------------------------------------------------------------------ C2
\* C2: when train_model returns, every batch of the training source has been
\* processed once (one optimizer step each) and the returned value is the sum
\* over all batches of batch loss x batch size.
C2_AllBatches ==
  pc = "tm_return"
    => /\ Len(tm_losses) = Len(train_loader)
       /\ train_loss = Num(WeightedSum(tm_losses, train_loader, Len(train_loader)))

\* ------------------------------------------------------------------ C3
\* C3: when an epoch's evaluation returns to train_loop, the counter that the
\* next early-stop check reads is 0 if the epoch's mean validation loss was
\* <= the best held before the epoch, and the old counter plus 1 otherwise.
C3_CounterUpdate ==
  [][(pc = "ev_return" /\ pc' = "loop")
       => no_improvement' =
            IF Leq(Last(valid_loss_array), valid_loss_min)
              THEN 0 ELSE no_improvement + 1]_vars

\* ------------------------------------------------------------------ C4
CheckpointsOf(e) == {i \in DOMAIN checkpoints : checkpoints[i].epoch = e}

C5_BestNonIncreasing == [][Leq(valid_loss_min', valid_loss_min)]_vars

\* a non-improving epoch has returned and the earlier best is still carried
C5_Witness ==
  /\ pc = "loop" /\ Len(valid_loss_array) >= 2
  /\ ~Leq(Last(valid_loss_array), valid_loss_min)
  /\ valid_loss_min # Inf

\* ------------------------------------------------------------------ C6
C6_Shape ==
  /\ Len(train_loss_array) = Len(valid_loss_array)
  /\ pc \in {"ev_decide", "ev_return"}
       => /\ Len(valid_loss_array) = epoch
          /\ valid_loss_array[epoch] = Mean(valid_loss, SampleCount(validation_loader))
          /\ train_loss_array[epoch] = Mean(train_loss.val, SampleCount(train_loader))
  /\ EpochUnderWay => Len(valid_loss_array) = epoch - 1
  /\ pc = "done" => /\ Len(train_loss_array) = train_calls
                    /\ Len(train_loss_array) = eval_calls

C6_Kept ==
  /\ Len(train_loss_array') >= Len(train_loss_array)
  /\ SubSeq(train_loss_array', 1, Len(train_loss_array)) = train_loss_array
  /\ Len(valid_loss_array') >= Len(valid_loss_array)
  /\ SubSeq(valid_loss_array', 1, Len(valid_loss_array)) = valid_loss_array

\* C6: the two histories always have equal length; while epoch k ends, entry
\* k of each is the mean that epoch computed, and no step ever changes or
\* removes an entry already recorded; when train_loop returns, the length is
\* the number of epochs that ran (the calls of train_model and of
\* evaluate_model).
C6_Histories == [](C6_Shape) /\ [][C6_Kept]_vars

\* the loop ran all of its (at least two) epochs and returned
C6_Witness ==
  /\ pc = "done" /\ n_epochs >= 2
  /\ Len(train_loss_array) = n_epochs
  /\ train_calls = n_epochs

\* ------------------------------------------------------------------ C7
\* the batches test_model has accumulated
RetainedIdx == {retained[k].idx : k \in DOMAIN retained}

\* the loop over the test source has ended
PassOver == tpc \in {"test_mean", "report", "done", "raised"}

\* C7: after the pass, every batch whose size equals batch_size has been
\* accumulated and no shorter batch has, wherever the short batches stand in
\* the source.
C7_ShortBatchSkipped ==
  PassOver =>
    \A i \in DOMAIN test_loader :
      /\ test_loader[i] = batch_size => i \in RetainedIdx
      /\ test_loader[i] < batch_size => i \notin RetainedIdx

\* ------------------------------------------------------------------ C8
RECURSIVE RetainedLoss(_)
\* sum over the accumulated batches of batch loss x batch size
RetainedLoss(r) ==
  IF r = <<>> THEN 0
  ELSE Head(r).loss * test_loader[Head(r).idx] + RetainedLoss(Tail(r))

RECURSIVE RetainedSamples(_)
RetainedSamples(r) ==
  IF r = <<>> THEN 0 ELSE test_loader[Head(r).idx] + RetainedSamples(Tail(r))

\* C8: the reported mean test loss is the loss sum of the retained batches
\* over the number of samples of the whole test dataset, skipped ones
\* included.
C8_MeanTestLoss ==
  tpc \in {"report", "done"}
    => /\ test_loss.num = RetainedLoss(retained)
       /\ test_loss.den = SumSizes(test_loader)

\* a mean was reported for a pass that retained a batch and skipped samples,
\* where neither the retained samples nor a batch count is the divisor
C8_Witness ==
  /\ tpc = "report"
  /\ Len(retained) >= 1
  /\ RetainedSamples(retained) < SumSizes(test_loader)
  /\ test_loss.den # RetainedSamples(retained)
  /\ test_loss.den # Len(retained)
  /\ test_loss.den # Len(test_loader)

\* ------------------------------------------------------------------ C9
\* C9: once the report loop is over, there is exactly one report per class,
\* in class order; it reads N/A exactly if the class's total is zero and
\* gives correct/total otherwise.  While the loop runs the same holds of the
\* reports made so far.
C9_ClassReports ==
  /\ \A k \in DOMAIN reports :
       /\ reports[k].class = k - 1
       /\ reports[k].text = "N/A" <=> class_total[k - 1] = 0
       /\ reports[k].text # "N/A"
            => /\ reports[k].correct = class_correct[k - 1]
               /\ reports[k].total = class_total[k - 1]
  /\ tpc = "done" => Len(reports) = class_num
  /\ tpc \in {"test_for", "test_count", "test_mean"} => reports = <<>>

\* the report is complete; one class has no samples, another has samples and
\* none of them correct
C9_Witness ==
  /\ tpc = "done" /\ class_num >= 2
  /\ \E c \in Classes : class_total[c] = 0
  /\ \E c \in Classes : class_total[c] > 0 /\ class_correct[c] = 0

\* ------------------------------------------------------------------ C10
\* C10: with a training source of zero batches, train_model hands the number
\* zero back to train_loop.
C10_ZeroBatches ==
  (Len(train_loader) = 0 /\ pc = "ev_for") => train_loss = Num(0)

\* ------------------------------------------------------------------ C11
TmPCs == {"tm_for", "tm_zero_grad", "tm_forward", "tm_backward", "tm_step",
          "tm_accum", "tm_return"}
EvPCs == {"ev_for", "ev_forward", "ev_decide", "ev_return"}

C11_Modes ==
  /\ pc \in TmPCs => mode = "train"
  /\ pc \in EvPCs => mode = "eval"
  /\ tpc \in {"test_for", "test_count", "test_mean", "report", "done"}
       => mode = "eval"

C11_Writes ==
  /\ opt_steps' # opt_steps => (pc = "tm_step" /\ mode = "train")
  /\ grads' # grads => pc \in {"tm_zero_grad", "tm_backward"}

\* C11: the parameters (opt_steps) change only in the optimizer step of
\* train_model, taken in training mode; the gradients change only in
\* train_model; evaluate_model and test_model run with the model in
\* evaluation mode and train_model with the model in training mode.
C11_SingleWriter == [](C11_Modes) /\ [][C11_Writes]_vars

\* a validation batch is about to be run after the parameters were updated
C11_Witness == pc = "ev_forward" /\ mode = "eval" /\ opt_steps >= 1

\* ------------------------------------------------------------------ C12
C12_Ended ==
  /\ pc = "raised" => UNCHANGED loopVars
  /\ pc' = "raised" => checkpoints' = checkpoints

\* C12: an exception of a batch operation is never handled: as soon as one
\* is raised train_loop has ended by it, and from then on nothing happens: no
\* batch, no epoch, no return of the histories, no change of the
\* checkpoints.
C12_Propagates == [](error # "none" => pc = "raised") /\ [][C12_Ended]_vars

\* a validation batch failed in a later epoch, after a checkpoint was written
C12_Witness ==
  /\ pc = "raised" /\ error = "batch" /\ mode = "eval"
  /\ epoch >= 2 /\ Len(checkpoints) >= 1 /\ Len(valid_loss_array) >= 1

\* ------------------------------------------------------------------ C13
\* C13: the means an epoch records are sums over sample counts: the train
\* entry is train_model's returned sum over the train sample count, the
\* validation entry is the sum of loss x size over every validation batch,
\* each run once, over the validation sample count.
C13_SampleMeans ==
  pc \in {"ev_decide", "ev_return"}
    => /\ Len(ev_losses) = Len(validation_loader)
       /\ Last(valid_loss_array) =
            Mean(WeightedSum(ev_losses, validation_loader, Len(validation_loader)),
                 SumSizes(validation_loader))
       /\ Last(train_loss_array) = Mean(train_loss.val, SumSizes(train_loader))

\* an epoch recorded its means where sample counts and batch counts differ
C13_Witness ==
  /\ pc = "ev_decide"
  /\ Len(validation_loader) = 2
  /\ SumSizes(validation_loader) # Len(validation_loader)
  /\ SumSizes(train_loader) # Len(train_loader)

\* ------------------------------------------------------------------ C14
BatchOps == <<"zero_grad", "forward", "loss", "backward", "step", "accumulate">>

\* C14: the operations on a batch are done in the order zero_grad, forward,
\* loss, backward, step, accumulate, each once; the backward pass starts from
\* cleared gradients and the step uses the gradients of one backward pass.
C14_BatchOrder ==
  /\ pc \in TmPCs \ {"tm_for"} => ops = SubSeq(BatchOps, 1, Len(ops))
  /\ pc = "tm_return" => ops = BatchOps
  /\ pc = "tm_backward" => grads = 0
  /\ pc = "tm_step" => grads = 1

\* a batch of a later epoch is done, after an earlier batch left gradients
C14_Witness == pc = "tm_return" /\ opt_steps >= 2 /\ epoch >= 2

\* ------------------------------------------------------------------ C15
C15_Phases ==
  /\ epoch >= 1
  /\ pc \in TmPCs => (train_calls = epoch /\ eval_calls = epoch - 1)
  /\ pc \in EvPCs => (train_calls = epoch /\ eval_calls = epoch)
  /\ pc = "loop" => (train_calls = epoch - 1 /\ eval_calls = epoch - 1)
  /\ pc \in TmPCs \cup {"loop", "ev_for", "ev_forward", "ev_decide"}
       => \A i \in DOMAIN checkpoints : checkpoints[i].epoch < epoch

C15_Steps ==
  /\ epoch' # epoch => (epoch' = epoch + 1 /\ pc = "ev_return" /\ pc' = "loop")
  /\ checkpoints' # checkpoints => (pc = "ev_decide" /\ pc' = "ev_return")
  /\ train_calls' # train_calls => (pc = "loop" /\ train_calls' = epoch)
  /\ eval_calls' # eval_calls
       => (pc \in {"tm_for", "tm_return"} /\ eval_calls' = epoch)

\* C15: epoch k's training pass is the k-th call of train_model and ends
\* before the k-th call of evaluate_model starts; the checkpoint of epoch k is
\* written inside that call, before the index moves on; the index starts at 1
\* and moves by one, only when the evaluation has returned.
C15_PhaseOrder == [](C15_Phases) /\ [][C15_Steps]_vars

\* the third epoch is being evaluated
C15_Witness == pc = "ev_decide" /\ epoch = 3 /\ Len(checkpoints) >= 1

\* ------------------------------------------------------------------ C16
\* C16: when the counter is >= patience before the first epoch, nothing
\* runs: no call of train_model or evaluate_model, no optimizer step, no
\* checkpoint, and the histories stay empty up to and including the return.
C16_NoEpoch ==
  (epoch = 1 /\ no_improvement >= max_no_improve_epochs)
    => /\ pc \in {"loop", "done"}
       /\ train_calls = 0 /\ eval_calls = 0 /\ opt_steps = 0
       /\ checkpoints = <<>>
       /\ train_loss_array = <<>> /\ valid_loss_array = <<>>

\* train_loop returned at once although epochs and patience were positive
C16_Witness ==
  /\ pc = "done" /\ n_epochs >= 2
  /\ max_no_improve_epochs >= 1 /\ no_improvement >= max_no_improve_epochs
  /\ train_loss_array = <<>> /\ valid_loss_array = <<>>

\* ------------------------------------------------------------------ C17
Same(a, b) == Leq(a, b) /\ Leq(b, a)

\* the latest epoch whose recorded loss is the least of the history
LatestBest(arr) ==
  CHOOSE k \in DOMAIN arr :
    /\ Same(arr[k], BestOf(arr))
    /\ \A j \in DOMAIN arr : j > k => ~Same(arr[j], BestOf(arr))

C18_Completes ==
  /\ pc = "raised" => error = "batch"
  /\ train_calls <= n_epochs /\ eval_calls <= train_calls
  /\ pc = "done" => train_calls = eval_calls

\* ------------------------------------------------------------------ C19
\* C19: for every class 0 <= correct <= total; the totals add up to the
\* retained batches x batch_size (after each whole batch; inside a batch, to
\* the samples counted so far); the overall accuracy is the sum of the
\* correct counts over the sum of the totals.
C19_Counts ==
  /\ \A c \in Classes : 0 <= class_correct[c] /\ class_correct[c] <= class_total[c]
  /\ SumCounts(class_total, class_num) =
       IF tpc = "test_count"
         THEN (Len(retained) - 1) * batch_size + sample_i
         ELSE Len(retained) * batch_size
  /\ tpc = "done"
       => overall = Mean(SumCounts(class_correct, class_num),
                         SumCounts(class_total, class_num))

\* the overall accuracy was reported after two retained batches, one class
\* without samples and at least one wrong prediction
C19_Witness ==
  /\ tpc = "done" /\ Len(retained) = 2 /\ class_num >= 2
  /\ \E c \in Classes : class_total[c] = 0
  /\ overall.num < overall.den

\* ------------------------------------------------------------------ C20
\* C20: test_model ends without an exception on every test source that has
\* samples, and when it comes to the overall accuracy the sum of the class
\* totals, its divisor, is not zero.
C20_OverallDefined ==
  /\ (tpc = "report" /\ Len(reports) >= class_num)
       => SumCounts(class_total, class_num) # 0
  /\ tpc = "raised" => SampleCount(test_loader) = 0

====
